---- MODULE Spec2Model ----
(***************************************************************************)
(* pngme: PNG chunk types, chunks, the chunk container and the command     *)
(* line handlers built on them.                                            *)
(*                                                                         *)
(* Representation.  A byte is a number 0..255 and a byte slice a sequence  *)
(* of bytes.  A char is its Unicode scalar value and a string (&str,       *)
(* String) the sequence of its chars; its bytes are its UTF-8 encoding.    *)
(* A u32 is the set of its one-bit positions (a subset of 0..31): TLC's    *)
(* integers stop at 2^31 - 1, and the CRC-32 is exclusive-or and shifts.   *)
(* Slice lengths and indices (usize, 64 bits) are plain numbers.           *)
(***************************************************************************)
EXTENDS Integers, Sequences, FiniteSets, TLC

----------------------------------------------------------------------------
(* Sequences, bytes and u32 words *)

\* the powers of two TLC's integers hold
PowersOfTwo ==
    <<1, 2, 4, 8, 16, 32, 64, 128, 256, 512, 1024, 2048, 4096, 8192,
      16384, 32768, 65536, 131072, 262144, 524288, 1048576, 2097152,
      4194304, 8388608, 16777216, 33554432, 67108864, 134217728,
      268435456, 536870912, 1073741824>>

Pow2(n) == PowersOfTwo[n + 1]

Take(s, n) == SubSeq(s, 1, n)

Drop(s, n) == SubSeq(s, n + 1, Len(s))

RECURSIVE SumBits(_)
SumBits(w) ==
    IF w = {} THEN 0
    ELSE LET i == CHOOSE x \in w : TRUE IN Pow2(i) + SumBits(w \ {i})

\* the one-bits of a byte
ByteBits(b) == {j \in 0..7 : (b \div Pow2(j)) % 2 = 1}

\* the byte holding bits 8k .. 8k+7 of the word w
WordByte(w, k) == SumBits({j \in 0..7 : (8 * k + j) \in w})

\* a number below 2^30 as a word, and back
NatToWord(n) == {i \in 0..30 : (n \div Pow2(i)) % 2 = 1}

WordToNat(w) == SumBits(w)

\* `n as u32`: the low 32 bits
AsU32(n) == {i \in NatToWord(n) : i < 32}

Xor(a, b) == (a \ b) \cup (b \ a)

Shr1(w) == {i - 1 : i \in w \ {0}}

u32_to_be_bytes(w) == <<WordByte(w, 3), WordByte(w, 2), WordByte(w, 1), WordByte(w, 0)>>

u32_from_be_bytes(b) ==
    UNION {{8 * (4 - k) + j : j \in ByteBits(b[k])} : k \in 1..4}

\* `n < (w as usize) + k` for a slice length n (below 2^30) and a u32 w:
\* usize has 64 bits, so the sum of a u32 and a small constant does not wrap
UsizeLtSum(n, w, k) ==
    IF \E i \in w : i >= 30 THEN TRUE ELSE n < WordToNat(w) + k

----------------------------------------------------------------------------
(* CRC-32 (IEEE 802.3, reflected), as crc32fast::Hasher computes it *)

CRC_POLY == {31, 30, 29, 27, 26, 24, 23, 21, 20, 19, 15, 9, 8, 5}

ALL_ONES == 0..31

\* n rounds of the bitwise division step
RECURSIVE CrcShift(_, _)
CrcShift(c, n) ==
    IF n = 0 THEN c
    ELSE IF 0 \in c THEN CrcShift(Xor(Shr1(c), CRC_POLY), n - 1)
                     ELSE CrcShift(Shr1(c), n - 1)

\* hasher.update(bytes) on the running value c: the value after a byte is
\* computed before the next byte is taken
RECURSIVE HasherUpdate(_, _)
HasherUpdate(c, bytes) ==
    IF bytes = <<>> THEN c
    ELSE CHOOSE r \in {HasherUpdate(next, Tail(bytes)) :
                         next \in {CrcShift(Xor(c, ByteBits(Head(bytes))), 8)}} : TRUE

HasherNew == ALL_ONES

HasherFinalize(c) == Xor(c, ALL_ONES)

----------------------------------------------------------------------------
(* Results: Ok(value), Err(error), or a panic of the thread *)

Ok(v) == [tag |-> "Ok", value |-> v]

Err(e) == [tag |-> "Err", error |-> e]

Panic == [tag |-> "Panic"]

IsOk(r) == r.tag = "Ok"

IsErr(r) == r.tag = "Err"

\* bytes[a..b]: in range when a <= b <= bytes.len(), a panic otherwise
SliceInRange(bytes, a, b) == a <= b /\ b <= Len(bytes)

Slice(bytes, a, b) == SubSeq(bytes, a + 1, b)

----------------------------------------------------------------------------
(* Strings: str.len() counts the bytes of the UTF-8 encoding, str.chars()  *)
(* yields the scalars                                                      *)

Utf8EncodeChar(c) ==
    IF c < 128 THEN <<c>>
    ELSE IF c < 2048 THEN <<192 + (c \div 64), 128 + (c % 64)>>
    ELSE IF c < 65536
         THEN <<224 + (c \div 4096), 128 + ((c \div 64) % 64), 128 + (c % 64)>>
    ELSE <<240 + (c \div 262144), 128 + ((c \div 4096) % 64),
           128 + ((c \div 64) % 64), 128 + (c % 64)>>

RECURSIVE str_as_bytes(_)
str_as_bytes(str) ==
    IF str = <<>> THEN <<>>
    ELSE Utf8EncodeChar(Head(str)) \o str_as_bytes(Tail(str))

str_len(str) == Len(str_as_bytes(str))

IsCont(b) == b >= 128 /\ b <= 191

\* the width of the well-formed UTF-8 sequence bytes starts with, 0 if none
Utf8Width(bytes) ==
    LET b0 == bytes[1]
        n == Len(bytes)
    IN  IF b0 < 128 THEN 1
        ELSE IF b0 >= 194 /\ b0 <= 223
             THEN IF n >= 2 /\ IsCont(bytes[2]) THEN 2 ELSE 0
        ELSE IF b0 >= 224 /\ b0 <= 239
             THEN IF /\ n >= 3
                     /\ IsCont(bytes[2])
                     /\ IsCont(bytes[3])
                     /\ (b0 = 224 => bytes[2] >= 160)
                     /\ (b0 = 237 => bytes[2] <= 159)
                  THEN 3 ELSE 0
        ELSE IF b0 >= 240 /\ b0 <= 244
             THEN IF /\ n >= 4
                     /\ IsCont(bytes[2])
                     /\ IsCont(bytes[3])
                     /\ IsCont(bytes[4])
                     /\ (b0 = 240 => bytes[2] >= 144)
                     /\ (b0 = 244 => bytes[2] <= 143)
                  THEN 4 ELSE 0
        ELSE 0

Utf8DecodeChar(bytes, w) ==
    IF w = 1 THEN bytes[1]
    ELSE IF w = 2 THEN (bytes[1] - 192) * 64 + (bytes[2] - 128)
    ELSE IF w = 3
         THEN (bytes[1] - 224) * 4096 + (bytes[2] - 128) * 64 + (bytes[3] - 128)
    ELSE (bytes[1] - 240) * 262144 + (bytes[2] - 128) * 4096
         + (bytes[3] - 128) * 64 + (bytes[4] - 128)

\* String::from_utf8
RECURSIVE FromUtf8(_)
FromUtf8(bytes) ==
    IF bytes = <<>> THEN Ok(<<>>)
    ELSE LET w == Utf8Width(bytes)
         IN  IF w = 0 THEN Err([kind |-> "FromUtf8Error"])
             ELSE LET rest == FromUtf8(Drop(bytes, w))
                  IN  IF IsErr(rest) THEN rest
                      ELSE Ok(<<Utf8DecodeChar(bytes, w)>> \o rest.value)

----------------------------------------------------------------------------
(* chunk_type.rs *)

PNG_CHUNK_TYPE_LENGTH == 4

InvalidStringLength(e, g) == [kind |-> "InvalidStringLength", expected |-> e, got |-> g]

InvalidAsciiCharacters == [kind |-> "InvalidAsciiCharacters"]

is_ascii_letter_byte(byte) ==
    (byte >= 65 /\ byte <= 90) \/ (byte >= 97 /\ byte <= 122)

\* `char as u8`: the low 8 bits of the scalar
CharAsU8(c) == c % 256

\* PngChunkType(pub [char; 4]) is the tuple of its 4 chars
ChunkTypeBytes(ct) == [i \in 1..PNG_CHUNK_TYPE_LENGTH |-> CharAsU8(ct[i])]

is_valid_chars(ct) ==
    \A i \in 1..PNG_CHUNK_TYPE_LENGTH : is_ascii_letter_byte(ChunkTypeBytes(ct)[i])

ToAsciiLower(c) == IF c >= 65 /\ c <= 90 THEN c + 32 ELSE c

\* a slip: the comparison ignores the case
ChunkTypeEqIgnoringCase(a, b) ==
    \A i \in 1..PNG_CHUNK_TYPE_LENGTH : ToAsciiLower(a[i]) = ToAsciiLower(b[i])

\* #[derive(Eq, PartialEq)]: the char arrays are equal
ChunkTypeEq(a, b) == \A i \in 1..PNG_CHUNK_TYPE_LENGTH : a[i] = b[i]

\* impl TryFrom<[u8; 4]> for PngChunkType; char::from(u8) keeps the value
ChunkTypeTryFrom(bytes) ==
    LET instance == [i \in 1..PNG_CHUNK_TYPE_LENGTH |-> bytes[i]]
    IN  IF ~is_valid_chars(instance) THEN Err(InvalidAsciiCharacters)
        ELSE Ok(instance)

\* impl FromStr for PngChunkType: chars.next().unwrap() panics on None
from_str(str) ==
    IF str_len(str) # PNG_CHUNK_TYPE_LENGTH
    THEN Err(InvalidStringLength(PNG_CHUNK_TYPE_LENGTH, str_len(str)))
    ELSE IF Len(str) < PNG_CHUNK_TYPE_LENGTH THEN Panic
    ELSE ChunkTypeTryFrom([i \in 1..PNG_CHUNK_TYPE_LENGTH |-> CharAsU8(str[i])])

----------------------------------------------------------------------------
(* chunk.rs *)

PNG_CHUNK_DATA_LENGTH_LENGTH == 4

CRC_LENGTH == 4

PNG_CHUNK_MINIMUM_LENGTH ==
    PNG_CHUNK_DATA_LENGTH_LENGTH + PNG_CHUNK_TYPE_LENGTH + CRC_LENGTH

InvalidMinimumLength(n) == [kind |-> "InvalidMinimumLength", got |-> n]

InvalidDataLength(e, g) == [kind |-> "InvalidDataLength", expected |-> e, got |-> g]

InvalidCRC(e, g) == [kind |-> "InvalidCRC", expected |-> e, got |-> g]

InvalidChunkType(e) == [kind |-> "InvalidChunkType", source |-> e]

PngChunk(l, t, d) == [length |-> l, chunk_type |-> t, data |-> d]

\* a slip: the length counts the type bytes with the data
NewCountingType(chunk_type, data) ==
    PngChunk(AsU32(Len(data) + PNG_CHUNK_TYPE_LENGTH), chunk_type, data)

\* PngChunk::new
New(chunk_type, data) == PngChunk(AsU32(Len(data)), chunk_type, data)

\* a slip: the checksum covers the data alone
ChunkCrcOfData(chunk) ==
    HasherFinalize(HasherUpdate(HasherNew, chunk.data))

\* PngChunk::crc
ChunkCrc(chunk) ==
    HasherFinalize(
        HasherUpdate(HasherUpdate(HasherNew, ChunkTypeBytes(chunk.chunk_type)),
                     chunk.data))

\* a slip: the length goes out little-endian
AsBytesLittleEndian(chunk) ==
    LET be == u32_to_be_bytes(chunk.length)
    IN  <<be[4], be[3], be[2], be[1]>> \o ChunkTypeBytes(chunk.chunk_type)
            \o chunk.data \o u32_to_be_bytes(ChunkCrc(chunk))

\* PngChunk::as_bytes
AsBytes(chunk) ==
    u32_to_be_bytes(chunk.length) \o ChunkTypeBytes(chunk.chunk_type)
        \o chunk.data \o u32_to_be_bytes(ChunkCrc(chunk))

\* PngChunk::data_as_string
data_as_string(chunk) == FromUtf8(chunk.data)

\* impl TryFrom<&[u8]> for PngChunk
TryFrom(bytes) ==
    IF Len(bytes) < PNG_CHUNK_MINIMUM_LENGTH
    THEN Err(InvalidMinimumLength(Len(bytes)))
    ELSE
    LET data_length ==
            u32_from_be_bytes(Slice(bytes, 0, PNG_CHUNK_DATA_LENGTH_LENGTH))
    IN
    IF UsizeLtSum(Len(bytes), data_length, PNG_CHUNK_TYPE_LENGTH + CRC_LENGTH)
    THEN Err(InvalidDataLength(data_length, Len(bytes)))
    ELSE
    LET chunk_type == ChunkTypeTryFrom(Slice(bytes, 4, 8)) IN
    IF IsErr(chunk_type) THEN Err(InvalidChunkType(chunk_type.error))
    ELSE IF \E i \in data_length : i >= 30 THEN Panic
    ELSE
    LET data_last_index == 8 + WordToNat(data_length) IN
    IF ~SliceInRange(bytes, 8, data_last_index) THEN Panic
    ELSE IF ~SliceInRange(bytes, data_last_index, data_last_index + 4) THEN Panic
    ELSE
    LET data == Slice(bytes, 8, data_last_index)
        crc == u32_from_be_bytes(Slice(bytes, data_last_index, data_last_index + 4))
        chunk == PngChunk(data_length, chunk_type.value, data)
        calculated_crc == ChunkCrc(chunk)
    IN  IF crc # calculated_crc THEN Err(InvalidCRC(calculated_crc, crc))
        ELSE Ok(chunk)

----------------------------------------------------------------------------
(* The container (Png): the signature and the chunk sequence *)

PNG_SIGNATURE == <<137, 80, 78, 71, 13, 10, 26, 10>>

InvalidSignature == [kind |-> "InvalidSignature"]

ChunkNotFound == [kind |-> "ChunkNotFound"]

\* chunks are parsed off the front, the cursor advancing by length + 12, until the
\* buffer is exhausted; a failing chunk fails the whole parse
RECURSIVE ParseChunks(_)
ParseChunks(rest) ==
    IF rest = <<>> THEN Ok(<<>>)
    ELSE LET r == TryFrom(rest)
         IN  IF ~IsOk(r) THEN r
             ELSE LET more == ParseChunks(Drop(rest, WordToNat(r.value.length) + 12))
                  IN  IF ~IsOk(more) THEN more
                      ELSE Ok(<<r.value>> \o more.value)

\* Png::try_from
PngTryFrom(bytes) ==
    IF Len(bytes) < Len(PNG_SIGNATURE) \/ Take(bytes, Len(PNG_SIGNATURE)) # PNG_SIGNATURE
    THEN Err(InvalidSignature)
    ELSE ParseChunks(Drop(bytes, Len(PNG_SIGNATURE)))

RECURSIVE ConcatBytes(_)
ConcatBytes(chunks) ==
    IF chunks = <<>> THEN <<>>
    ELSE AsBytes(Head(chunks)) \o ConcatBytes(Tail(chunks))

\* Png::as_bytes
PngAsBytes(chunks) == PNG_SIGNATURE \o ConcatBytes(chunks)

\* Png::append_chunk
AppendChunk(chunks, c) == Append(chunks, c)

\* the index of the first chunk of the type, 0 if there is none
FirstOfType(chunks, t) ==
    LET hits == {i \in 1..Len(chunks) : ChunkTypeEq(chunks[i].chunk_type, t)}
    IN  IF hits = {} THEN 0 ELSE CHOOSE i \in hits : \A j \in hits : i <= j

RemoveAt(chunks, i) == Take(chunks, i - 1) \o Drop(chunks, i)

\* Png::remove_first_chunk: the result, and the chunk sequence it leaves
RemoveFirstChunk(chunks, type_string) ==
    LET t == from_str(type_string)
    IN  IF ~IsOk(t) THEN [result |-> t, chunks |-> chunks]
        ELSE LET i == FirstOfType(chunks, t.value)
             IN  IF i = 0 THEN [result |-> Err(ChunkNotFound), chunks |-> chunks]
                 ELSE [result |-> Ok(chunks[i]), chunks |-> RemoveAt(chunks, i)]

\* Png::chunk_by_type: Ok(Some(chunk)) or Ok(None); a panic of from_str unwinds
ChunkByType(chunks, type_string) ==
    LET t == from_str(type_string)
    IN  IF t.tag = "Panic" THEN Panic
        ELSE IF IsErr(t) THEN Ok(<<>>)
        ELSE LET i == FirstOfType(chunks, t.value)
             IN  IF i = 0 THEN Ok(<<>>) ELSE Ok(<<chunks[i]>>)

----------------------------------------------------------------------------
(* main.rs: the command handlers over the file system.  A handler returns   *)
(* its result, the files it leaves and the line it printed.                 *)

IoNotFound == [kind |-> "NotFound"]

Handled(r, fs, line) == [result |-> r, files |-> fs, stdout |-> line]

\* File::open, then create_png_from_file_bytes
ReadPng(fs, file_path) ==
    IF fs[file_path] = <<>> THEN Err(IoNotFound)
    ELSE PngTryFrom(fs[file_path][1])

\* open_file_for_rewrite creates or truncates, write_all fills
Rewrite(fs, path, bytes) == [fs EXCEPT ![path] = <<bytes>>]

\* a slip: the chunk of the type is not removed before the new one is appended
handle_encode_keeping(fs, file_path, chunk_type, message, output_file_path) ==
    LET png == ReadPng(fs, file_path) IN
    IF ~IsOk(png) THEN Handled(png, fs, <<>>)
    ELSE IF str_len(chunk_type) # 4 THEN Handled(Panic, fs, <<>>)
    ELSE
    LET t == ChunkTypeTryFrom(str_as_bytes(chunk_type)) IN
    IF IsErr(t) THEN Handled(t, fs, <<>>)
    ELSE
    LET chunks == AppendChunk(png.value, New(t.value, str_as_bytes(message)))
        path == IF output_file_path = <<>> THEN file_path ELSE output_file_path[1]
    IN  Handled(Ok(<<>>), Rewrite(fs, path, PngAsBytes(chunks)),
                <<[kind |-> "written", path |-> path]>>)

handle_encode_command(fs, file_path, chunk_type, message, output_file_path) ==
    LET png == ReadPng(fs, file_path) IN
    IF ~IsOk(png) THEN Handled(png, fs, <<>>)
    ELSE
    \* remove_first_chunk(&chunk_type).ok(): an error is dropped, a panic is not
    LET removal == RemoveFirstChunk(png.value, chunk_type) IN
    IF removal.result.tag = "Panic" THEN Handled(Panic, fs, <<>>)
    \* chunk_type.as_bytes().try_into().unwrap()
    ELSE IF str_len(chunk_type) # 4 THEN Handled(Panic, fs, <<>>)
    ELSE
    LET t == ChunkTypeTryFrom(str_as_bytes(chunk_type)) IN
    IF IsErr(t) THEN Handled(t, fs, <<>>)
    ELSE
    LET chunks == AppendChunk(removal.chunks, New(t.value, str_as_bytes(message)))
        path == IF output_file_path = <<>> THEN file_path ELSE output_file_path[1]
    IN  Handled(Ok(<<>>), Rewrite(fs, path, PngAsBytes(chunks)),
                <<[kind |-> "written", path |-> path]>>)

handle_decode_command(fs, file_path, chunk_type) ==
    LET png == ReadPng(fs, file_path) IN
    IF ~IsOk(png) THEN Handled(png, fs, <<>>)
    ELSE
    LET found == ChunkByType(png.value, chunk_type) IN
    IF ~IsOk(found) THEN Handled(found, fs, <<>>)
    ELSE IF found.value = <<>> THEN Handled(Ok(<<>>), fs, <<[kind |-> "not found"]>>)
    ELSE
    LET message == data_as_string(found.value[1])
    IN  IF IsOk(message)
        THEN Handled(Ok(<<>>), fs, <<[kind |-> "message", text |-> message.value]>>)
        ELSE Handled(Ok(<<>>), fs, <<[kind |-> "not utf-8"]>>)

handle_remove_command(fs, file_path, chunk_type) ==
    LET png == ReadPng(fs, file_path) IN
    IF ~IsOk(png) THEN Handled(png, fs, <<>>)
    ELSE
    LET removal == RemoveFirstChunk(png.value, chunk_type) IN
    IF removal.result.tag = "Panic" THEN Handled(Panic, fs, <<>>)
    \* if let Err(_): whatever the error
    ELSE IF IsErr(removal.result) THEN Handled(Ok(<<>>), fs, <<[kind |-> "not found"]>>)
    ELSE Handled(Ok(<<>>), Rewrite(fs, file_path, PngAsBytes(removal.chunks)),
                 <<[kind |-> "removed"]>>)

handle_print_command(fs, file_path) ==
    LET png == ReadPng(fs, file_path) IN
    IF ~IsOk(png) THEN Handled(png, fs, <<>>)
    ELSE Handled(Ok(<<>>), fs, <<[kind |-> "png", chunks |-> png.value]>>)

\* main unwraps the handler's result: Ok exits 0, an error or a panic exits 101
ExitStatus(r) == IF IsOk(r) THEN 0 ELSE 101

----------------------------------------------------------------------------
(* State *)

VARIABLES
    ch,       \* the chunk harness: a slice (or new's arguments), the chunk, its bytes
    ty,       \* the chunk type harness: a string and what from_str made of it
    pn,       \* the container harness: a buffer, the container, what was done to it
    files,    \* command line: path -> the file's bytes, or Absent
    cmd,      \* the last command line
    exit,     \* its exit status
    stdout    \* the line it printed

vars == <<ch, ty, pn, files, cmd, exit, stdout>>

None == <<>>

Some(x) == <<x>>

ChunkIdle ==
    [origin |-> "none", cin |-> None, chunk |-> None, wire |-> None,
     res |-> None, flip |-> None, pc |-> "idle"]

TypeIdle == [str |-> None, res |-> None]

PngIdle ==
    [buf |-> None, png |-> None, res |-> None, before |-> None, added |-> None,
     type_string |-> None, removed |-> None, out |-> None, pc |-> "idle"]

----------------------------------------------------------------------------
(* Inputs *)

\* the longest payload drawn
MaxData == 2

DataBytes == {104, 255}

RECURSIVE SeqsUpTo(_, _)
SeqsUpTo(S, n) ==
    IF n = 0 THEN {<<>>}
    ELSE LET shorter == SeqsUpTo(S, n - 1)
         IN  shorter \cup {Append(s, x) : s \in {t \in shorter : Len(t) = n - 1}, x \in S}

Payloads == SeqsUpTo(DataBytes, MaxData)

\* "RuSt", "ruSt", "Ru1t", and a tag with a byte that is no ASCII
TypeTags == {<<82, 117, 83, 116>>, <<114, 117, 83, 116>>,
             <<82, 117, 49, 116>>, <<82, 117, 83, 244>>}

ValidTypes == {ChunkTypeTryFrom(t).value : t \in {u \in TypeTags : IsOk(ChunkTypeTryFrom(u))}}

LengthFields ==
    {u32_to_be_bytes(AsU32(k)) : k \in 0..(MaxData + 1)}
        \cup {<<255, 255, 255, 255>>, <<0, 0, 1, 0>>}

\* the checksum of tag ++ payload on the wire, right or with its last bit flipped
CrcFields(tag, payload) ==
    LET good == HasherFinalize(HasherUpdate(HasherNew, tag \o payload))
    IN  {u32_to_be_bytes(good), u32_to_be_bytes(Xor(good, {0}))}

Prefixes(s) == {Take(s, n) : n \in 0..Len(s)}

\* chunk.rs tests: "RuSt", the 42-byte message, crc 2882656334 and 2882656333
TestMessage ==
    <<84, 104, 105, 115, 32, 105, 115, 32, 119, 104, 101, 114, 101, 32, 121,
      111, 117, 114, 32, 115, 101, 99, 114, 101, 116, 32, 109, 101, 115, 115,
      97, 103, 101, 32, 119, 105, 108, 108, 32, 98, 101, 33>>

TestSlices ==
    {<<0, 0, 0, 42>> \o <<82, 117, 83, 116>> \o TestMessage \o c :
        c \in {<<171, 209, 216, 78>>, <<171, 209, 216, 77>>}}

ChunkSlices ==
    TestSlices \cup
    UNION {UNION {Prefixes(l \o t \o d \o c \o z) : c \in CrcFields(t, d)} :
             <<l, t, d, z>> \in LengthFields \X TypeTags \X Payloads \X {<<>>, <<0>>}}

----------------------------------------------------------------------------
(* The chunk harness: try_from on a slice, or new, then as_bytes, a bit    *)
(* flip and try_from on the bytes                                          *)

InitChunk ==
    /\ \/ \E s \in ChunkSlices :
            ch = [ChunkIdle EXCEPT !.origin = "slice", !.cin = s, !.pc = "slice"]
       \/ \E a \in [chunk_type : ValidTypes, data : Payloads \cup {TestMessage}] :
            ch = [ChunkIdle EXCEPT !.origin = "args", !.cin = a, !.pc = "args"]
    /\ ty = TypeIdle
    /\ pn = PngIdle
    /\ files = None /\ cmd = None /\ exit = 0 /\ stdout = None

TryFromSlice ==
    /\ ch.pc = "slice"
    /\ LET r == TryFrom(ch.cin)
       IN  ch' = [ch EXCEPT !.res = Some(r),
                            !.chunk = IF IsOk(r) THEN Some(r.value) ELSE None,
                            !.pc = "parsed"]
    /\ UNCHANGED <<ty, pn, files, cmd, exit, stdout>>

NewChunk ==
    /\ ch.pc = "args"
    /\ ch' = [ch EXCEPT !.chunk = Some(New(ch.cin.chunk_type, ch.cin.data)),
                        !.pc = "built"]
    /\ UNCHANGED <<ty, pn, files, cmd, exit, stdout>>

Serialize ==
    /\ ch.pc \in {"parsed", "built"}
    /\ ch.chunk # None
    /\ ch' = [ch EXCEPT !.wire = Some(AsBytes(ch.chunk[1])), !.pc = "serialized"]
    /\ UNCHANGED <<ty, pn, files, cmd, exit, stdout>>

FlipByte(b, bit) == IF bit \in ByteBits(b) THEN b - Pow2(bit) ELSE b + Pow2(bit)

\* one bit of the type bytes or the data bytes of the serialized chunk flips
FlipBit ==
    /\ ch.pc = "serialized"
    /\ \E i \in (PNG_CHUNK_DATA_LENGTH_LENGTH + 1)..(Len(ch.wire[1]) - CRC_LENGTH),
          bit \in 0..7 :
          ch' = [ch EXCEPT !.wire = Some([ch.wire[1] EXCEPT ![i] = FlipByte(@, bit)]),
                           !.flip = Some([byte |-> i, bit |-> bit]),
                           !.pc = "flipped"]
    /\ UNCHANGED <<ty, pn, files, cmd, exit, stdout>>

Reparse ==
    /\ ch.pc \in {"serialized", "flipped"}
    /\ ch' = [ch EXCEPT !.res = Some(TryFrom(ch.wire[1])), !.pc = "reparsed"]
    /\ UNCHANGED <<ty, pn, files, cmd, exit, stdout>>

NextChunk ==
    \/ TryFromSlice
    \/ NewChunk
    \/ Serialize
    \/ FlipBit
    \/ Reparse

SpecChunk == InitChunk /\ [][NextChunk]_vars

----------------------------------------------------------------------------
(* The chunk type harness: from_str on a string *)

\* the longest string drawn, in chars
MaxStr == 5

\* 'R', 't', '1', e-acute (2 bytes), the euro sign (3 bytes), U+1F600 (4 bytes)
StrChars == {82, 116, 49, 233, 8364, 128512}

InitType ==
    /\ \E s \in SeqsUpTo(StrChars, MaxStr) : ty = [str |-> Some(s), res |-> None]
    /\ ch = ChunkIdle
    /\ pn = PngIdle
    /\ files = None /\ cmd = None /\ exit = 0 /\ stdout = None

FromStr ==
    /\ ty.str # None
    /\ ty.res = None
    /\ ty' = [ty EXCEPT !.res = Some(from_str(ty.str[1]))]
    /\ UNCHANGED <<ch, pn, files, cmd, exit, stdout>>

NextType == FromStr

SpecType == InitType /\ [][NextType]_vars

----------------------------------------------------------------------------
(* The container harness: Png::try_from on a buffer, then as_bytes, or       *)
(* append_chunk and remove_first_chunk                                       *)

\* the most chunks in a buffer drawn
MaxChunks == 2

\* the CRC-32 of a byte sequence, as 4 big-endian bytes
Crc32Bytes(bytes) == u32_to_be_bytes(HasherFinalize(HasherUpdate(HasherNew, bytes)))

\* a chunk as it lies in a file: length, tag, payload, checksum
WireOf(tag, payload) ==
    <<0, 0, 0, Len(payload)>> \o tag \o payload \o Crc32Bytes(tag \o payload)

RuSt == <<82, 117, 83, 116>>

ruSt == <<114, 117, 83, 116>>

\* chunks of two types, with "h", "", e-acute and a byte that is no UTF-8
GoodWires ==
    {WireOf(RuSt, <<104>>), WireOf(RuSt, <<>>), WireOf(ruSt, <<195, 169>>),
     WireOf(ruSt, <<255>>)}

\* a chunk with a wrong checksum, and one cut short
BadWires ==
    {<<0, 0, 0, 1>> \o RuSt \o <<104>> \o <<0, 0, 0, 0>>,
     Take(WireOf(RuSt, <<104>>), 11)}

RECURSIVE ConcatAll(_)
ConcatAll(ss) == IF ss = <<>> THEN <<>> ELSE Head(ss) \o ConcatAll(Tail(ss))

PngBuffers ==
    {ConcatAll(<<sig>> \o ws) :
        sig \in {PNG_SIGNATURE, [PNG_SIGNATURE EXCEPT ![1] = 0], Take(PNG_SIGNATURE, 7)},
        ws \in SeqsUpTo(GoodWires \cup BadWires, MaxChunks)}

\* "RuSt", "ruSt", "Ru1t", "RuS", and two e-acute (4 bytes, 2 chars)
TypeStrings == {RuSt, ruSt, <<82, 117, 49, 116>>, <<82, 117, 83>>, <<233, 233>>}

NewArgs == [chunk_type : ValidTypes, data : {<<104>>, <<>>}]

InitPng ==
    /\ \E b \in PngBuffers : pn = [PngIdle EXCEPT !.buf = Some(b), !.pc = "raw"]
    /\ ch = ChunkIdle
    /\ ty = TypeIdle
    /\ files = None /\ cmd = None /\ exit = 0 /\ stdout = None

PngParse ==
    /\ pn.pc = "raw"
    /\ LET r == PngTryFrom(pn.buf[1])
       IN  pn' = [pn EXCEPT !.res = Some(r),
                            !.png = IF IsOk(r) THEN Some(r.value) ELSE None,
                            !.pc = "parsed"]
    /\ UNCHANGED <<ch, ty, files, cmd, exit, stdout>>

PngSerialize ==
    /\ pn.pc = "parsed"
    /\ pn.png # None
    /\ pn' = [pn EXCEPT !.out = Some(PngAsBytes(pn.png[1])), !.pc = "serialized"]
    /\ UNCHANGED <<ch, ty, files, cmd, exit, stdout>>

PngAppend ==
    /\ pn.pc = "parsed"
    /\ pn.png # None
    /\ \E a \in NewArgs :
          pn' = [pn EXCEPT !.before = pn.png,
                           !.added = Some(a),
                           !.png = Some(AppendChunk(pn.png[1], New(a.chunk_type, a.data))),
                           !.pc = "appended"]
    /\ UNCHANGED <<ch, ty, files, cmd, exit, stdout>>

PngRemoveFirst ==
    /\ pn.pc = "appended"
    /\ \E s \in TypeStrings :
          LET r == RemoveFirstChunk(pn.png[1], s)
          IN  pn' = [pn EXCEPT !.type_string = Some(s),
                               !.removed = Some(r.result),
                               !.png = Some(r.chunks),
                               !.pc = "removed"]
    /\ UNCHANGED <<ch, ty, files, cmd, exit, stdout>>

NextPng ==
    \/ PngParse
    \/ PngSerialize
    \/ PngAppend
    \/ PngRemoveFirst

SpecPng == InitPng /\ [][NextPng]_vars

----------------------------------------------------------------------------
(* The command line: encode, decode, remove and print on two paths *)

Paths == {"a.png", "b.png"}

\* e-acute
Messages == {<<233>>}

\* the chunk type arguments: "RuSt", "Ru1t", and two e-acute (4 bytes, 2 chars)
TypeArgs == {RuSt, <<82, 117, 49, 116>>, <<233, 233>>}

\* the files a.png may start as: PNG files without, with one and with two chunks
\* of type RuSt, a file with a bad signature, a file whose chunk has a wrong
\* checksum; b.png does not exist
StartFiles ==
    {PNG_SIGNATURE,
     PNG_SIGNATURE \o WireOf(RuSt, <<104>>),
     PNG_SIGNATURE \o WireOf(ruSt, <<255>>) \o WireOf(RuSt, <<255>>),
     PNG_SIGNATURE \o WireOf(RuSt, <<104>>) \o WireOf(RuSt, <<>>),
     [PNG_SIGNATURE EXCEPT ![1] = 0] \o WireOf(RuSt, <<104>>),
     PNG_SIGNATURE \o <<0, 0, 0, 1>> \o RuSt \o <<104>> \o <<0, 0, 0, 0>>}

Command(n, f, t, m, o) ==
    [name |-> n, file_path |-> f, chunk_type |-> t, message |-> m, output_file_path |-> o]

Init ==
    /\ \E b \in StartFiles : files = [p \in Paths |-> IF p = "a.png" THEN <<b>> ELSE <<>>]
    /\ cmd = None
    /\ exit = 0
    /\ stdout = None
    /\ ch = ChunkIdle
    /\ ty = TypeIdle
    /\ pn = PngIdle

Encode ==
    \E f \in Paths, t \in TypeArgs, m \in Messages, o \in {None, Some("b.png")} :
        LET h == handle_encode_command(files, f, t, m, o)
        IN  /\ cmd' = Some(Command("encode", f, t, m, o))
            /\ files' = h.files
            /\ exit' = ExitStatus(h.result)
            /\ stdout' = h.stdout
            /\ UNCHANGED <<ch, ty, pn>>

Decode ==
    \E f \in Paths, t \in TypeArgs :
        LET h == handle_decode_command(files, f, t)
        IN  /\ cmd' = Some(Command("decode", f, t, None, None))
            /\ files' = h.files
            /\ exit' = ExitStatus(h.result)
            /\ stdout' = h.stdout
            /\ UNCHANGED <<ch, ty, pn>>

Remove ==
    \E f \in Paths, t \in TypeArgs :
        LET h == handle_remove_command(files, f, t)
        IN  /\ cmd' = Some(Command("remove", f, t, None, None))
            /\ files' = h.files
            /\ exit' = ExitStatus(h.result)
            /\ stdout' = h.stdout
            /\ UNCHANGED <<ch, ty, pn>>

PrintPng ==
    \E f \in Paths :
        LET h == handle_print_command(files, f)
        IN  /\ cmd' = Some(Command("print", f, None, None, None))
            /\ files' = h.files
            /\ exit' = ExitStatus(h.result)
            /\ stdout' = h.stdout
            /\ UNCHANGED <<ch, ty, pn>>

Next ==
    \/ Encode
    \/ Decode
    \/ Remove
    \/ PrintPng

Spec == Init /\ [][Next]_vars

----------------------------------------------------------------------------
(* Claims about chunks, under SpecChunk *)

IsLetter(b) == (b >= 65 /\ b <= 90) \/ (b >= 97 /\ b <= 122)

\* the slices of the model are shorter than 2^16 bytes: a length field with one of
\* its two high bytes set declares more than any of them holds
DeclaredLength(b) == b[3] * 256 + b[4]

\* the slice is shorter than its length field plus k
ShorterThanDeclared(b, k) ==
    b[1] # 0 \/ b[2] # 0 \/ Len(b) < DeclaredLength(b) + k

\* C2: parsing the bytes of new(t, d).as_bytes() succeeds and returns a chunk with
\* the length, the type and the data of new(t, d), whose recomputed checksum is
\* the one on the wire
C2_NewRoundTrip ==
    (ch.origin = "args" /\ ch.pc = "reparsed" /\ ch.flip = None) =>
        LET r == ch.res[1]
            w == ch.wire[1]
        IN  /\ IsOk(r)
            /\ r.value.length = ch.chunk[1].length
            /\ u32_to_be_bytes(r.value.length) = <<0, 0, 0, Len(ch.cin.data)>>
            /\ r.value.chunk_type = ch.cin.chunk_type
            /\ r.value.data = ch.cin.data
            /\ u32_to_be_bytes(ChunkCrc(r.value)) = SubSeq(w, Len(w) - 3, Len(w))

C2_Witness ==
    /\ ch.origin = "args" /\ ch.pc = "reparsed" /\ ch.flip = None
    /\ IsOk(ch.res[1])
    /\ Len(ch.cin.data) = MaxData

\* C3: try_from on any slice returns a chunk or one of the four declared errors and
\* never panics; a slice of at least 12 bytes shorter than its length field plus 8
\* (the type and the checksum beyond the data) yields
\* InvalidDataLength{length, slice length}
C3_TryFromTotal ==
    ch.pc = "parsed" =>
        LET r == ch.res[1]
            b == ch.cin
        IN  /\ r.tag \in {"Ok", "Err"}
            /\ IsErr(r) => r.error.kind \in {"InvalidMinimumLength", "InvalidDataLength",
                                             "InvalidCRC", "InvalidChunkType"}
            /\ (Len(b) >= 12 /\ ShorterThanDeclared(b, 8)) =>
                   /\ IsErr(r)
                   /\ r.error.kind = "InvalidDataLength"
                   /\ u32_to_be_bytes(r.error.expected) = Take(b, 4)
                   /\ r.error.got = Len(b)

\* C6: a slice that passes the length checks and has a valid type tag parses iff
\* the 4 bytes after the data are the big-endian CRC-32 of type ++ data; otherwise
\* the error is InvalidCRC{expected: the computed CRC, got: the one on the wire}
C6_CrcDecides ==
    (/\ ch.pc = "parsed"
     /\ Len(ch.cin) >= 12
     /\ ~ShorterThanDeclared(ch.cin, 8)
     /\ \A i \in 5..8 : IsLetter(ch.cin[i])) =>
        LET r == ch.res[1]
            b == ch.cin
            n == DeclaredLength(b)
            computed == Crc32Bytes(SubSeq(b, 5, 8 + n))
            on_wire == SubSeq(b, 9 + n, 12 + n)
        IN  /\ r.tag \in {"Ok", "Err"}
            /\ IsOk(r) <=> (on_wire = computed)
            /\ (on_wire # computed) =>
                   /\ IsErr(r)
                   /\ r.error.kind = "InvalidCRC"
                   /\ u32_to_be_bytes(r.error.expected) = computed
                   /\ u32_to_be_bytes(r.error.got) = on_wire

\* C7 as stated: with one bit of the type or data bytes flipped, parsing fails and
\* the failure is a checksum verification failure
C7_FlipFailsChecksum ==
    (ch.pc = "reparsed" /\ ch.flip # None) =>
        /\ IsErr(ch.res[1])
        /\ ch.res[1].error.kind = "InvalidCRC"

\* C7 amended: with one bit of the type or data bytes flipped, parsing fails: with
\* InvalidCRC when the 4 type bytes are still ASCII letters, and with
\* InvalidChunkType(InvalidAsciiCharacters) when the flip made one a non-letter
C7_FlipFails ==
    (ch.pc = "reparsed" /\ ch.flip # None) =>
        LET r == ch.res[1]
            w == ch.wire[1]
        IN  /\ IsErr(r)
            /\ IF \A i \in 5..8 : IsLetter(w[i])
               THEN /\ r.error.kind = "InvalidCRC"
                    /\ u32_to_be_bytes(r.error.got) = SubSeq(w, Len(w) - 3, Len(w))
               ELSE /\ ch.flip[1].byte <= 8
                    /\ r.error = InvalidChunkType(InvalidAsciiCharacters)

C7_Witness ==
    /\ ch.pc = "reparsed" /\ ch.flip # None
    /\ ch.flip[1].byte > 8
    /\ IsErr(ch.res[1])
    /\ ch.res[1].error.kind = "InvalidCRC"

\* C8: a chunk from new or from a successful parse has length = data.len(), and
\* its as_bytes() is length + 12 bytes: the big-endian length, the type bytes, the
\* data, the big-endian CRC-32 of type ++ data
C8_LengthAndLayout ==
    /\ ch.chunk # None =>
           LET c == ch.chunk[1]
           IN  u32_to_be_bytes(c.length) = <<0, 0, 0, Len(c.data)>>
    /\ ch.pc = "serialized" =>
           LET c == ch.chunk[1]
               w == ch.wire[1]
               n == Len(c.data)
           IN  /\ Len(w) = n + 12
               /\ SubSeq(w, 1, 4) = <<0, 0, 0, n>>
               /\ SubSeq(w, 5, 8) = c.chunk_type
               /\ SubSeq(w, 9, 8 + n) = c.data
               /\ SubSeq(w, 9 + n, 12 + n) = Crc32Bytes(c.chunk_type \o c.data)

C8_Witness ==
    /\ ch.pc = "serialized"
    /\ ch.origin = "slice"
    /\ Len(ch.chunk[1].data) = MaxData
    /\ Len(ch.wire[1]) = MaxData + 12

\* C4 as stated: from_str succeeds iff the string has exactly 4 chars, all ASCII
\* letters; a string of N # 4 chars fails with InvalidStringLength{4, N}, one of 4
\* chars with a non-letter fails with InvalidAsciiCharacters; it never panics
C4_FromStrCountsChars ==
    ty.res # None =>
        LET s == ty.str[1]
            r == ty.res[1]
            letters == \A i \in 1..Len(s) : IsLetter(s[i])
        IN  /\ r.tag \in {"Ok", "Err"}
            /\ IsOk(r) <=> (Len(s) = 4 /\ letters)
            /\ Len(s) # 4 => r = Err(InvalidStringLength(4, Len(s)))
            /\ (Len(s) = 4 /\ ~letters) => r = Err(InvalidAsciiCharacters)

----------------------------------------------------------------------------
(* Claims about the container, under SpecPng *)

\* C1: when container parsing succeeds on a buffer, serializing the container
\* yields that buffer, byte for byte
C1_ParseThenSerialize ==
    pn.pc = "serialized" => pn.out[1] = pn.buf[1]

C1_Witness ==
    /\ pn.pc = "serialized"
    /\ Len(pn.png[1]) = MaxChunks
    /\ pn.png[1][1] # pn.png[1][2]
    /\ Len(pn.png[1][1].data) > 0

\* the appended chunk, and whether the sequence held its type before
AddedChunk == PngChunk(AsU32(Len(pn.added[1].data)), pn.added[1].chunk_type, pn.added[1].data)

RemovedAddedType ==
    /\ pn.pc = "removed"
    /\ pn.type_string[1] = pn.added[1].chunk_type

HeldType(chunks, t) == \E i \in 1..Len(chunks) : chunks[i].chunk_type = t

\* C5 as stated: append_chunk(c) then remove_first_chunk(T), T the type of c,
\* returns c and leaves the chunk sequence as it was, whatever it held
C5_AppendRemoveRestores ==
    RemovedAddedType =>
        /\ pn.removed[1] = Ok(AddedChunk)
        /\ pn.png = pn.before

\* C5 amended: it returns c and leaves the sequence S as it was when S holds no
\* chunk of type T; when S holds one, the first of them is returned and removed,
\* and c stays at the end
C5_AppendRemoveFirst ==
    RemovedAddedType =>
        LET S == pn.before[1]
            t == pn.added[1].chunk_type
        IN  IF ~HeldType(S, t)
            THEN /\ pn.removed[1] = Ok(AddedChunk)
                 /\ pn.png[1] = S
            ELSE LET i == CHOOSE k \in 1..Len(S) :
                              /\ S[k].chunk_type = t
                              /\ \A j \in 1..(k - 1) : S[j].chunk_type # t
                 IN  /\ pn.removed[1] = Ok(S[i])
                     /\ pn.png[1] = Take(S, i - 1) \o Drop(S, i) \o <<AddedChunk>>

C5_Witness ==
    /\ RemovedAddedType
    /\ Len(pn.before[1]) = MaxChunks
    /\ ~HeldType(pn.before[1], pn.added[1].chunk_type)
    /\ pn.removed[1] = Ok(AddedChunk)

----------------------------------------------------------------------------
(* Claims about the command line, under Spec *)

IsCommand(c, n) == c # None /\ c[1].name = n

\* C9 as stated: in the remove command only "no chunk of the requested type is
\* present" ends in the informational message and exit status 0; any other error,
\* a chunk type string that fails construction included, ends in a non-zero status
C9_OnlyNotFoundDowngraded ==
    IsCommand(cmd, "remove") =>
        LET c == cmd[1]
            file == ReadPng(files, c.file_path)
            t == from_str(c.chunk_type)
        IN  /\ (~IsOk(file) \/ ~IsOk(t)) => exit # 0
            /\ (exit = 0 /\ stdout = Some([kind |-> "not found"])) =>
                   /\ IsOk(file)
                   /\ IsOk(t)
                   /\ ~HeldType(file.value, t.value)

\* the path the encode command wrote
WrittenPath(c) ==
    IF c.output_file_path = None THEN c.file_path ELSE c.output_file_path[1]

\* the decode command with the type of c on the file c wrote prints c's message
DecodePrintsMessage(fs, c) ==
    LET d == handle_decode_command(fs, WrittenPath(c), c.chunk_type)
    IN  /\ IsOk(d.result)
        /\ d.stdout = Some([kind |-> "message", text |-> c.message])

TypeCount(chunks, t) == Cardinality({i \in 1..Len(chunks) : chunks[i].chunk_type = t})

\* C10 as stated: after an encode command with type T and message m succeeds,
\* decode with T on the written file prints m, whatever the file held
C10_DecodeAfterEncode ==
    (IsCommand(cmd, "encode") /\ exit = 0) => DecodePrintsMessage(files, cmd[1])

\* C10 amended: it prints m when the file encode read held at most one chunk of
\* type T
C10_DecodeAfterEncodeOfOne ==
    [][(/\ IsCommand(cmd', "encode")
        /\ exit' = 0
        /\ TypeCount(ReadPng(files, cmd'[1].file_path).value, cmd'[1].chunk_type) <= 1)
       => DecodePrintsMessage(files', cmd'[1])]_vars

C10_Witness ==
    /\ IsCommand(cmd, "encode")
    /\ exit = 0
    /\ LET chunks == ReadPng(files, WrittenPath(cmd[1])).value
       IN  /\ Len(chunks) >= 2
           /\ TypeCount(chunks, cmd[1].chunk_type) = 1
    /\ DecodePrintsMessage(files, cmd[1])

====
